---- MODULE Spec2Model ----
(***************************************************************************)
(* A model of the mach-kernel linear memory of the wasmtime executor       *)
(* (client/executor/wasmtime/src/runtime/mach_memory.rs): MachAllocator::  *)
(* new_memory and the LinearMemory operations of MachMemory, together with *)
(* the part of the task's virtual address space they act on.               *)
(*                                                                         *)
(* Sizes and addresses are bytes, as in the source.  The address space is  *)
(* tracked per wasm page (64 KiB); the inputs drawn for reserved and guard *)
(* sizes are multiples of the wasm page, which is what the engine passes.  *)
(* The u32 page count and the u64 byte count keep their checked arithmetic *)
(* but are scaled down to U32_MAX and U64_MAX.                             *)
(***************************************************************************)
EXTENDS Integers, Sequences, FiniteSets, TLC

\* mach_memory.rs:33
WASM_PAGE_SHIFT == 16

\* largest value of the page-count type (u32::MAX in the source), scaled
U32_MAX == 3

\* largest value of the byte-count type (u64::MAX in the source), scaled
U64_MAX == 16777215

\* number of wasm-page-sized pages of the task's address space
AddrSpacePages == 4

\* number of threads that share one MachMemory
NumThreads == 2

\* largest minimum page count of a memory type passed to new_memory
MaxMinPages == 1

\* largest reserved size, in wasm pages, passed to new_memory
MaxReservedPages == 2

\* largest guard size, in wasm pages, passed to new_memory
MaxGuardPages == 1

Threads == 1..NumThreads

NoThread == 0

Pages == 0..(AddrSpacePages - 1)

\* Option<T>
None == [tag |-> "None", v |-> 0]

Some(n) == [tag |-> "Some", v |-> n]

PageSize == 2^WASM_PAGE_SHIFT

\* u64::from(n) << WASM_PAGE_SHIFT, for a u32 n: cannot overflow u64
PagesToBytes(n) == n * PageSize

Min(a, b) == IF a < b THEN a ELSE b

\* u32::wrapping_add in place of checked_add
wrapping_add_u32(a, b) == Some((a + b) % (U32_MAX + 1))

\* u32::saturating_add in place of checked_add
saturating_add_u32(a, b) == Some(Min(a + b, U32_MAX))

\* u32::checked_add
checked_add_u32(a, b) == IF a + b > U32_MAX THEN None ELSE Some(a + b)

\* u64::checked_add
checked_add_u64(a, b) == IF a + b > U64_MAX THEN None ELSE Some(a + b)

VARIABLES
    vm,                 \* protection of each page of the task's address space
    new_memory_args,    \* arguments of the call of MachAllocator::new_memory
    new_memory_result,  \* outcome of MachAllocator::new_memory
    mem,                \* the MachMemory struct
    lock,               \* holder of the wasm_pages mutex, NoThread if free
    pc,                 \* position of each thread inside grow
    frame,              \* locals of each thread inside grow
    ret,                \* the last call that returned or panicked
    aborted,            \* a panic has terminated the process
    denied,             \* history: smallest delta grow has answered None to
    grown,              \* history: sum of the deltas grow has answered Some to
    map,                \* CountedStorageMap: the StorageMap, key -> value
    counter,            \* CountedStorageMap: the StorageValue<u32> counter
    called,             \* CountedStorageMap: the last call and what it saw
    probe               \* memory_consumption_compiled: the test's position and probes

\* the variables of the linear memory
mvars == <<vm, new_memory_args, new_memory_result, mem, lock, pc, frame, ret, aborted,
           denied, grown>>

\* the variables of the counted storage map
cvars == <<map, counter, called>>

vars == <<mvars, cvars, probe>>

\* the pages of [addr, addr + size)
RangePages(addr, size) ==
    {p \in (addr \div PageSize)..((addr + size - 1) \div PageSize) :
        addr <= p * PageSize /\ p * PageSize < addr + size}

\* mach_vm_protect(task, addr, size, 0, prot): KERN_SUCCESS on an empty
\* range; KERN_INVALID_ADDRESS, with nothing changed, when part of the range
\* is not mapped; otherwise every page of the range gets prot.
mach_vm_protect(m, addr, size, prot) ==
    IF size = 0 THEN [result |-> 0, vm |-> m]
    ELSE IF \E p \in RangePages(addr, size) : p \notin Pages \/ m[p] = "unmapped"
         THEN [result |-> 1, vm |-> m]
         ELSE [result |-> 0,
               vm |-> [p \in Pages |-> IF p \in RangePages(addr, size) THEN prot ELSE m[p]]]

\* change_protection: the assert_eq!(result, 0) panics on any other result
change_protection(m, addr, size, prot) ==
    LET r == mach_vm_protect(m, addr, size, prot)
    IN  [panic |-> r.result # 0, vm |-> r.vm]

\* the addresses mach_vm_allocate(task, &mut address, size, ANYWHERE | PURGABLE)
\* may return: 0 for an empty request, else the start of any unmapped range
\* of that size (never the null page)
AllocAddresses(m, size) ==
    IF size = 0 THEN {0}
    ELSE {p * PageSize : p \in {q \in Pages \ {0} :
              \A r \in RangePages(q * PageSize, size) : r \in Pages /\ m[r] = "unmapped"}}

\* the address space after a successful mach_vm_allocate: VM_PROT_DEFAULT
mach_vm_allocate(m, addr, size) ==
    [p \in Pages |-> IF p \in RangePages(addr, size) THEN "rw" ELSE m[p]]

NoMem == [address |-> 0, mapped_bytes |-> 0, guard_bytes |-> 0,
          wasm_pages |-> 0, wasm_pages_max |-> None]

NoFrame == [delta |-> 0, mem0 |-> NoMem, new_page_num |-> 0, new_bytes |-> 0]

EmptyVm == [p \in Pages |-> "unmapped"]

NoDenial == U32_MAX + 1

NoRet == [op |-> "none", delta |-> 0, val |-> None, denied0 |-> NoDenial,
          mem0 |-> NoMem, vm0 |-> EmptyVm, mem1 |-> NoMem, vm1 |-> EmptyVm]

NoArgs == [min |-> 0, max |-> None, reserved |-> None, guard |-> 0]

\* no call of the counted storage map yet
NoCall == [op |-> "none"]

\* the test has not started
NoProbe == [at |-> "off"]

\* the counted storage map and the residency test are not in use
MemoryOnly == map = <<>> /\ counter = 0 /\ called = NoCall /\ probe = NoProbe

Init ==
    /\ MemoryOnly
    /\ grown = 0
    /\ vm \in {m \in [Pages -> {"unmapped", "none"}] : m[0] = "unmapped"}
    /\ new_memory_result = "NotCalled"
    /\ new_memory_args = NoArgs
    /\ mem = NoMem
    /\ lock = NoThread
    /\ pc = [t \in Threads |-> "idle"]
    /\ frame = [t \in Threads |-> NoFrame]
    /\ ret = NoRet
    /\ aborted = FALSE
    /\ denied = NoDenial


\* the memory types, reserved sizes and guard sizes new_memory is called with
MemoryTypes ==
    {ty \in [min : 0..MaxMinPages, max : {None} \cup {Some(n) : n \in 0..U32_MAX}] :
        ty.max.tag = "Some" => ty.min <= ty.max.v}

ReservedSizes == {None} \cup {Some(PagesToBytes(n)) : n \in 0..MaxReservedPages}

GuardSizes == {PagesToBytes(n) : n \in 0..MaxGuardPages} \cup {U64_MAX}

\* a call that returned val to thread t, or panicked: its delta, the denials
\* before it, and the struct and the address space before and after it
Returned(op, t, delta, val, mem0, vm0, mem1, vm1) ==
    [op |-> op, delta |-> delta, val |-> val, denied0 |-> denied,
     mem0 |-> mem0, vm0 |-> vm0, mem1 |-> mem1, vm1 |-> vm1]

Panic(why) == [tag |-> why, v |-> 0]

\* lines 77-83 with the reserved size ignored
new_memory_sizes_noreserve(ty, reserved_size_in_bytes, guard_size_in_bytes) ==
    LET accessible_bytes == PagesToBytes(ty.min)
        mapped_bytes == checked_add_u64(accessible_bytes, guard_size_in_bytes)
    IN  IF mapped_bytes.tag = "None"
        THEN [tag |-> "ErrOverflow", accessible_bytes |-> accessible_bytes, mapped_bytes |-> 0]
        ELSE [tag |-> "Sized", accessible_bytes |-> accessible_bytes,
              mapped_bytes |-> mapped_bytes.v]

\* MachAllocator::new_memory, lines 76-85: the size arithmetic
new_memory_sizes(ty, reserved_size_in_bytes, guard_size_in_bytes) ==
    LET accessible_bytes == PagesToBytes(ty.min)
        mapped_bytes == checked_add_u64(IF reserved_size_in_bytes.tag = "Some"
                                        THEN reserved_size_in_bytes.v
                                        ELSE accessible_bytes,
                                        guard_size_in_bytes)
    IN  IF mapped_bytes.tag = "None"
        THEN [tag |-> "ErrOverflow", accessible_bytes |-> accessible_bytes, mapped_bytes |-> 0]
        ELSE IF ~(accessible_bytes <= mapped_bytes.v)
        THEN [tag |-> "PanicAssert", accessible_bytes |-> accessible_bytes,
              mapped_bytes |-> mapped_bytes.v]
        ELSE [tag |-> "Sized", accessible_bytes |-> accessible_bytes,
              mapped_bytes |-> mapped_bytes.v]

\* MachAllocator::new_memory, lines 107-113: the struct it boxes
new_MachMemory(address, mapped_bytes, guard_size_in_bytes, ty) ==
    [address |-> address, mapped_bytes |-> mapped_bytes,
     guard_bytes |-> guard_size_in_bytes,
     wasm_pages |-> ty.min, wasm_pages_max |-> ty.max]

\* MachAllocator::new_memory
NewMemory ==
    /\ new_memory_result = "NotCalled"
    /\ ~aborted
    /\ \E ty \in MemoryTypes, reserved \in ReservedSizes, guard \in GuardSizes :
         LET s == new_memory_sizes(ty, reserved, guard)
             args == [min |-> ty.min, max |-> ty.max, reserved |-> reserved, guard |-> guard]
         IN  /\ new_memory_args' = args
             /\ IF s.tag = "ErrOverflow"
                THEN /\ new_memory_result' = "ErrOverflow"
                     /\ UNCHANGED <<vm, mem, aborted>>
                ELSE IF s.tag = "PanicAssert"
                THEN /\ new_memory_result' = "PanicAssert"
                     /\ aborted' = TRUE
                     /\ UNCHANGED <<vm, mem>>
                ELSE \/ /\ s.mapped_bytes > 0
                        /\ new_memory_result' = "ErrAlloc"
                        /\ UNCHANGED <<vm, mem, aborted>>
                     \/ \E address \in AllocAddresses(vm, s.mapped_bytes) :
                          LET allocated == mach_vm_allocate(vm, address, s.mapped_bytes)
                              cp == change_protection(allocated,
                                                      address + s.accessible_bytes,
                                                      s.mapped_bytes - s.accessible_bytes,
                                                      "none")
                          IN  /\ vm' = cp.vm
                              /\ aborted' = cp.panic
                              /\ new_memory_result' = IF cp.panic THEN "PanicProtect" ELSE "Ok"
                              /\ mem' = IF cp.panic THEN mem
                                        ELSE new_MachMemory(address, s.mapped_bytes, guard, ty)
    /\ UNCHANGED <<lock, pc, frame, ret, denied, grown>>
    /\ UNCHANGED <<cvars, probe>>

\* lines 129-136 without the comparison with wasm_pages_max
grow_checks_nomax(m, delta) ==
    LET new_page_num == checked_add_u32(m.wasm_pages, delta)
        new_bytes == PagesToBytes(new_page_num.v)
        sum == checked_add_u64(new_bytes, m.guard_bytes)
        out(tag) == [tag |-> tag, new_page_num |-> new_page_num.v, new_bytes |-> new_bytes]
    IN  IF new_page_num.tag = "None" THEN out("None")
        ELSE IF sum.tag = "None" THEN out("None")
        ELSE IF ~(sum.v > m.mapped_bytes) THEN out("PanicAssert")
        ELSE out("Proceed")

\* MachMemory::grow, lines 129-136: the checks made under the lock
grow_checks(m, delta) ==
    LET new_page_num == checked_add_u32(m.wasm_pages, delta)
        new_bytes == PagesToBytes(new_page_num.v)
        sum == checked_add_u64(new_bytes, m.guard_bytes)
        out(tag) == [tag |-> tag, new_page_num |-> new_page_num.v, new_bytes |-> new_bytes]
    IN  IF new_page_num.tag = "None" THEN out("None")
        ELSE IF m.wasm_pages_max.tag = "Some" /\ new_page_num.v > m.wasm_pages_max.v
        THEN out("None")
        ELSE IF sum.tag = "None" THEN out("None")
        ELSE IF ~(sum.v > m.mapped_bytes) THEN out("PanicAssert")
        ELSE out("Proceed")

\* line 137 storing the growth instead of the new page count
grow_write_delta(m, new_page_num) ==
    [m EXCEPT !.wasm_pages = new_page_num - m.wasm_pages]

\* line 137 followed by a move to a new, larger mapping
grow_write_realloc(m, new_page_num) ==
    [m EXCEPT !.wasm_pages = new_page_num,
              !.address = m.address + PageSize,
              !.mapped_bytes = PagesToBytes(new_page_num) + m.guard_bytes]

\* MachMemory::grow, line 137: *wasm_pages = new_page_num
grow_write(m, new_page_num) == [m EXCEPT !.wasm_pages = new_page_num]

Live == new_memory_result = "Ok" /\ ~aborted

\* a lock() that never waits
mutex_free_always(holder) == TRUE

\* self.wasm_pages.lock() returns once no thread holds the mutex
mutex_free(holder) == holder = NoThread

\* a mutex whose guard is never dropped
drop_guard_leak(holder) == holder

\* the MutexGuard of wasm_pages goes out of scope when the call returns
drop_guard(holder) == NoThread

\* MachMemory::grow, lines 128-136: take the lock and check; a None return
\* and an assertion panic both end the call here
GrowLock(t, delta) ==
    /\ Live
    /\ mutex_free(lock)
    /\ pc[t] = "idle"
    /\ LET c == grow_checks(mem, delta)
       IN  IF c.tag = "None"
           THEN /\ ret' = Returned("grow", t, delta, None, mem, vm, mem, vm)
                /\ denied' = Min(denied, delta)
                /\ lock' = drop_guard(t)
                /\ UNCHANGED <<pc, frame, aborted>>
           ELSE IF c.tag = "PanicAssert"
           THEN /\ ret' = Returned("grow", t, delta, Panic("PanicAssert"), mem, vm, mem, vm)
                /\ aborted' = TRUE
                /\ UNCHANGED <<lock, pc, frame, denied>>
           ELSE /\ lock' = t
                /\ pc' = [pc EXCEPT ![t] = "write"]
                /\ frame' = [frame EXCEPT ![t] =
                                [delta |-> delta, mem0 |-> mem,
                                 new_page_num |-> c.new_page_num, new_bytes |-> c.new_bytes]]
                /\ UNCHANGED <<ret, aborted, denied>>
    /\ UNCHANGED <<vm, new_memory_args, new_memory_result, mem, grown>>
    /\ UNCHANGED <<cvars, probe>>

\* MachMemory::grow, line 137
GrowWrite(t) ==
    /\ ~aborted
    /\ pc[t] = "write"
    /\ mem' = grow_write(mem, frame[t].new_page_num)
    /\ pc' = [pc EXCEPT ![t] = "protect"]
    /\ UNCHANGED <<vm, new_memory_args, new_memory_result, lock, frame, ret, aborted, denied, grown>>
    /\ UNCHANGED <<cvars, probe>>

\* MachMemory::grow, lines 138-139: make the accessible range read/write,
\* return Some(new_page_num) and drop the lock; a failed protection change
\* panics
GrowProtect(t) ==
    /\ ~aborted
    /\ pc[t] = "protect"
    /\ LET cp == change_protection(vm, mem.address, frame[t].new_bytes, "rw")
           mem0 == frame[t].mem0
       IN  IF cp.panic
           THEN /\ ret' = Returned("grow", t, frame[t].delta, Panic("PanicProtect"),
                                   mem0, vm, mem, vm)
                /\ aborted' = TRUE
                /\ UNCHANGED <<vm, lock, pc, frame, grown>>
           ELSE /\ vm' = cp.vm
                /\ ret' = Returned("grow", t, frame[t].delta, Some(frame[t].new_page_num),
                                   mem0, vm, mem, cp.vm)
                /\ lock' = drop_guard(t)
                /\ pc' = [pc EXCEPT ![t] = "idle"]
                /\ frame' = [frame EXCEPT ![t] = NoFrame]
                /\ grown' = grown + frame[t].delta
                /\ UNCHANGED aborted
    /\ UNCHANGED <<new_memory_args, new_memory_result, mem, denied>>
    /\ UNCHANGED <<cvars, probe>>

\* MachMemory::size
size == mem.wasm_pages

\* MachMemory::maximum
maximum == mem.wasm_pages_max

\* MachMemory::as_ptr
as_ptr == mem.address

\* a call of MachMemory::size: it takes the lock
Size(t) ==
    /\ Live
    /\ mutex_free(lock)
    /\ pc[t] = "idle"
    /\ ret' = Returned("size", t, 0, Some(size), mem, vm, mem, vm)
    /\ lock' = drop_guard(t)
    /\ UNCHANGED <<vm, new_memory_args, new_memory_result, mem, pc, frame, aborted, denied, grown>>
    /\ UNCHANGED <<cvars, probe>>

\* a call of MachMemory::maximum
Maximum(t) ==
    /\ Live
    /\ pc[t] = "idle"
    /\ ret' = Returned("maximum", t, 0, maximum, mem, vm, mem, vm)
    /\ UNCHANGED lock
    /\ UNCHANGED <<vm, new_memory_args, new_memory_result, mem, pc, frame, aborted, denied, grown>>
    /\ UNCHANGED <<cvars, probe>>

\* a call of MachMemory::as_ptr
AsPtr(t) ==
    /\ Live
    /\ pc[t] = "idle"
    /\ ret' = Returned("as_ptr", t, 0, Some(as_ptr), mem, vm, mem, vm)
    /\ UNCHANGED lock
    /\ UNCHANGED <<vm, new_memory_args, new_memory_result, mem, pc, frame, aborted, denied, grown>>
    /\ UNCHANGED <<cvars, probe>>

Deltas == 0..U32_MAX

Next ==
    \/ NewMemory
    \/ \E t \in Threads, delta \in Deltas : GrowLock(t, delta)
    \/ \E t \in Threads : GrowWrite(t)
    \/ \E t \in Threads : GrowProtect(t)
    \/ \E t \in Threads : Size(t)
    \/ \E t \in Threads : Maximum(t)
    \/ \E t \in Threads : AsPtr(t)

Spec == Init /\ [][Next]_vars

----------------------------------------------------------------------------
(***************************************************************************)
(* CountedStorageMap (frame/support/src/storage/counted_map.rs): a         *)
(* StorageMap together with a StorageValue<u32> that counts its keys.      *)
(* The StorageMap and StorageValue operations it forwards to are modelled  *)
(* by what their documentation says they do to the stored keys.  A closure *)
(* passed to a mutate function is given by its outcome: the optional value *)
(* it leaves under the key and, for the try_ functions, whether it         *)
(* returned Ok.                                                            *)
(***************************************************************************)

\* number of keys of the map
NumKeys == 2

\* longest value (a Vec of items) stored in the map
MaxLen == 2

Keys == 1..NumKeys

Items == {1}

Values == UNION {[1..n -> Items] : n \in 0..MaxLen}

\* Option<MapValue>
Absent == [tag |-> "None", v |-> <<>>]

Present(v) == [tag |-> "Some", v |-> v]

OptionalValues == {Absent} \cup {Present(v) : v \in Values}

\* outcomes of a closure given to mutate, try_mutate, mutate_exists, try_mutate_exists
Closures == [new : OptionalValues, ok : BOOLEAN]

\* outcomes of a closure given to translate_values, per old value: the value
\* is dropped (None), kept, or replaced by the empty value
Translations ==
    {f \in [Values -> OptionalValues] :
        \A v \in Values : f[v] \in {Absent, Present(v), Present(<<>>)}}

EmptyMap == [k \in Keys |-> Absent]

\* the keys in storage
KeysIn(m) == {k \in Keys : m[k].tag = "Some"}

\* StorageMap::contains_key
Map_contains_key(m, key) == m[key].tag = "Some"

\* StorageMap::insert
Map_insert(m, key, val) == [m EXCEPT ![key] = Present(val)]

\* StorageMap::remove
Map_remove(m, key) == [m EXCEPT ![key] = Absent]

\* StorageMap::take
Map_take(m, key) == [m EXCEPT ![key] = Absent]

\* StorageMap::mutate and StorageMap::mutate_exists: the closure's value is stored
Map_mutate(m, key, f) == [m EXCEPT ![key] = f.new]

\* StorageMap::try_mutate and StorageMap::try_mutate_exists: stored only on Ok
Map_try_mutate(m, key, f) == IF f.ok THEN [m EXCEPT ![key] = f.new] ELSE m

\* StorageMap::append
Map_append(m, key, item) ==
    [m EXCEPT ![key] = Present(IF m[key].tag = "Some" THEN Append(m[key].v, item)
                               ELSE <<item>>)]

\* StorageMap::swap
Map_swap(m, key1, key2) == [m EXCEPT ![key1] = m[key2], ![key2] = m[key1]]

\* StorageMap::remove_all
Map_remove_all(m) == EmptyMap

\* StorageMap::translate_values
Map_translate_values(m, f) ==
    [k \in Keys |-> IF m[k].tag = "Some" THEN f[m[k].v] ELSE Absent]

\* StorageMap::iter_values().count()
Map_iter_values_count(m) == Cardinality(KeysIn(m))

\* Saturating::saturating_inc on u32
saturating_inc(value) == Min(value + 1, U32_MAX)

\* Saturating::saturating_dec on u32
saturating_dec(value) == IF value = 0 THEN 0 ELSE value - 1

\* the storage of a CountedStorageMap
Storage(m, c) == [map |-> m, counter |-> c]

\* mutate_counter that counts every call as an addition
mutate_counter_always(st, mutated, key) ==
    Storage(mutated, saturating_inc(st.counter))

\* CountedStorageMap::mutate_counter; mutated is the map after m(key, f)
mutate_counter(st, mutated, key) ==
    LET val_existed == Map_contains_key(st.map, key)
        val_exists == Map_contains_key(mutated, key)
    IN  IF val_existed /\ ~val_exists
        THEN Storage(mutated, saturating_dec(st.counter))
        ELSE IF ~val_existed /\ val_exists
        THEN Storage(mutated, saturating_inc(st.counter))
        ELSE Storage(mutated, st.counter)

\* CountedStorageMap::swap
swap(st, key1, key2) == Storage(Map_swap(st.map, key1, key2), st.counter)

\* CountedStorageMap::insert
insert(st, key, val) ==
    Storage(Map_insert(st.map, key, val),
            IF ~Map_contains_key(st.map, key) THEN saturating_inc(st.counter)
            ELSE st.counter)

\* CountedStorageMap::remove
remove(st, key) ==
    Storage(Map_remove(st.map, key),
            IF Map_contains_key(st.map, key) THEN saturating_dec(st.counter)
            ELSE st.counter)

\* CountedStorageMap::mutate
mutate(st, key, f) == mutate_counter(st, Map_mutate(st.map, key, f), key)

\* CountedStorageMap::try_mutate
try_mutate(st, key, f) == mutate_counter(st, Map_try_mutate(st.map, key, f), key)

\* CountedStorageMap::mutate_exists
mutate_exists(st, key, f) == mutate_counter(st, Map_mutate(st.map, key, f), key)

\* CountedStorageMap::try_mutate_exists
try_mutate_exists(st, key, f) == mutate_counter(st, Map_try_mutate(st.map, key, f), key)

\* CountedStorageMap::take
take(st, key) ==
    Storage(Map_take(st.map, key),
            IF Map_contains_key(st.map, key) THEN saturating_dec(st.counter)
            ELSE st.counter)

\* CountedStorageMap::append
append(st, key, item) ==
    Storage(Map_append(st.map, key, item),
            IF ~Map_contains_key(st.map, key) THEN saturating_inc(st.counter)
            ELSE st.counter)

\* CountedStorageMap::remove_all
remove_all(st) == Storage(Map_remove_all(st.map), 0)

\* CountedStorageMap::translate_values
translate_values(st, f) == Storage(Map_translate_values(st.map, f), st.counter)

\* initialize_counter that leaves the counter as it is
initialize_counter_stale(st) == Storage(st.map, st.counter)

\* CountedStorageMap::initialize_counter
initialize_counter(st) == Storage(st.map, Map_iter_values_count(st.map))

\* CountedStorageMap::count
count == counter

\* the storage before a call
Stored == Storage(map, counter)

\* a call op(key, ...) on the storage: what it found, what it left
Call(op, key, ok, result, st) ==
    /\ map' = st.map
    /\ counter' = st.counter
    /\ called' = [op |-> op, key |-> key, ok |-> ok, result |-> result,
                  map0 |-> map, counter0 |-> counter]

\* the linear memory is not in use
MemoryIdle ==
    /\ vm = EmptyVm /\ new_memory_result = "NotCalled" /\ new_memory_args = NoArgs
    /\ mem = NoMem /\ lock = NoThread /\ pc = [t \in Threads |-> "idle"]
    /\ frame = [t \in Threads |-> NoFrame] /\ ret = NoRet /\ aborted = FALSE
    /\ denied = NoDenial /\ grown = 0

\* an empty map whose counter is 0
InitCounted ==
    /\ MemoryIdle
    /\ probe = NoProbe
    /\ map = EmptyMap
    /\ counter = 0
    /\ called = NoCall

Insert ==
    /\ \E key \in Keys, val \in Values : Call("insert", key, TRUE, 0, insert(Stored, key, val))
    /\ UNCHANGED <<mvars, probe>>

Remove ==
    /\ \E key \in Keys : Call("remove", key, TRUE, 0, remove(Stored, key))
    /\ UNCHANGED <<mvars, probe>>

Take ==
    /\ \E key \in Keys : Call("take", key, TRUE, 0, take(Stored, key))
    /\ UNCHANGED <<mvars, probe>>

Mutate ==
    /\ \E key \in Keys, f \in {g \in Closures : g.ok} :
           Call("mutate", key, TRUE, 0, mutate(Stored, key, f))
    /\ UNCHANGED <<mvars, probe>>

TryMutate ==
    /\ \E key \in Keys, f \in Closures :
           Call("try_mutate", key, f.ok, 0, try_mutate(Stored, key, f))
    /\ UNCHANGED <<mvars, probe>>

MutateExists ==
    /\ \E key \in Keys, f \in {g \in Closures : g.ok} :
           Call("mutate_exists", key, TRUE, 0, mutate_exists(Stored, key, f))
    /\ UNCHANGED <<mvars, probe>>

TryMutateExists ==
    /\ \E key \in Keys, f \in Closures :
           Call("try_mutate_exists", key, f.ok, 0, try_mutate_exists(Stored, key, f))
    /\ UNCHANGED <<mvars, probe>>

AppendItem ==
    /\ \E key \in Keys, item \in Items :
           /\ map[key].tag = "Some" => Len(map[key].v) < MaxLen
           /\ Call("append", key, TRUE, 0, append(Stored, key, item))
    /\ UNCHANGED <<mvars, probe>>

Swap ==
    /\ \E key1 \in Keys, key2 \in Keys : Call("swap", key1, TRUE, key2, swap(Stored, key1, key2))
    /\ UNCHANGED <<mvars, probe>>

RemoveAll ==
    /\ Call("remove_all", 0, TRUE, 0, remove_all(Stored))
    /\ UNCHANGED <<mvars, probe>>

TranslateValues ==
    /\ \E f \in Translations : Call("translate_values", 0, TRUE, 0, translate_values(Stored, f))
    /\ UNCHANGED <<mvars, probe>>

InitializeCounter ==
    /\ Call("initialize_counter", 0, TRUE, initialize_counter(Stored).counter,
            initialize_counter(Stored))
    /\ UNCHANGED <<mvars, probe>>

\* the calls that add, change and remove single entries, swap and remove_all
NextCounted ==
    \/ Insert
    \/ Remove
    \/ Take
    \/ Mutate
    \/ TryMutate
    \/ MutateExists
    \/ TryMutateExists
    \/ AppendItem
    \/ Swap
    \/ RemoveAll

SpecCounted == InitCounted /\ [][NextCounted]_vars

\* every call that writes to the storage
NextCountedAll ==
    \/ Insert
    \/ Remove
    \/ Take
    \/ Mutate
    \/ TryMutate
    \/ MutateExists
    \/ TryMutateExists
    \/ AppendItem
    \/ Swap
    \/ RemoveAll
    \/ TranslateValues
    \/ InitializeCounter

SpecCountedAll == InitCounted /\ [][NextCountedAll]_vars

----------------------------------------------------------------------------
(***************************************************************************)
(* The residency test (executor/src/integration_tests/sys.rs) and its      *)
(* probe (sys/macos.rs).  The test calls a sandbox export that writes to   *)
(* a number of pages of the instance's linear memory from __heap_base on   *)
(* and, after the call has returned, asks the operating system how much of *)
(* the linear memory is resident.  The export and the instance's handling  *)
(* of its memory when a call returns are modelled from the specification:  *)
(* the export touches the pages one after the other, and the resident      *)
(* footprint is back at the baseline when the call has returned.           *)
(***************************************************************************)

\* heap pages of the test runtime (1024 in sys.rs, scaled)
HeapPages == 4

\* vm_page_shift of the host: 4 KiB or 16 KiB pages
VmPageShifts == {12, 14}

\* the wasm page that holds __heap_base
HeapBases == {0, 1}

\* the wasm pages of the instance's linear memory
LinearPages == 0..(HeapPages + 1)

\* host pages per wasm page
HostPagesPerWasmPage(shift) == 2^(WASM_PAGE_SHIFT - shift)

\* vm_region_extended_info.pages_resident of the region at the base pointer
pages_resident(resident, shift) == Cardinality(resident) * HostPagesPerWasmPage(shift)

\* a probe that reports the size of the region
instance_region_bytes(resident, shift) ==
    pages_resident(LinearPages, shift) * 2^shift

\* instance_resident_bytes: info.pages_resident << vm_page_shift
instance_resident_bytes(resident, shift) ==
    pages_resident(resident, shift) * 2^shift

\* test_dirty_plenty_memory: the page written by the i-th write from heap_base
DirtiedPage(heap_base, i) == heap_base + i

\* the footprint after a call has returned
Reclaimed(resident) == {}

\* memory_consumption_compiled before its first call
InitResidency ==
    /\ MemoryIdle
    /\ map = <<>> /\ counter = 0 /\ called = NoCall
    /\ \E shift \in VmPageShifts, heap_base \in HeapBases, data \in SUBSET HeapBases :
           probe = [at |-> "start", vm_page_shift |-> shift, heap_base |-> heap_base,
                    heap_pages |-> 0, written |-> 0, resident |-> data,
                    probe_1 |-> 0, probe_2 |-> 0]

\* instance.call_export("test_dirty_plenty_memory", (heap_base, heap_pages))
CallExport ==
    /\ probe.at \in {"start", "probed_1"}
    /\ \E heap_pages \in 1..HeapPages :
           probe' = [probe EXCEPT !.at = IF probe.at = "start" THEN "call_1" ELSE "call_2",
                                  !.heap_pages = heap_pages, !.written = 0]
    /\ UNCHANGED <<mvars, cvars>>

\* the export writes to the next page
DirtyPage ==
    /\ probe.at \in {"call_1", "call_2"}
    /\ probe.written < probe.heap_pages
    /\ probe' = [probe EXCEPT
                     !.resident = @ \cup {DirtiedPage(probe.heap_base, probe.written)},
                     !.written = @ + 1]
    /\ UNCHANGED <<mvars, cvars>>

\* call_export returns
ReturnFromCall ==
    /\ probe.at \in {"call_1", "call_2"}
    /\ probe.written = probe.heap_pages
    /\ probe' = [probe EXCEPT
                     !.at = IF probe.at = "call_1" THEN "returned_1" ELSE "returned_2",
                     !.resident = Reclaimed(probe.resident)]
    /\ UNCHANGED <<mvars, cvars>>

\* let probe_k = instance_resident_bytes(&*instance)
Probe ==
    /\ probe.at \in {"returned_1", "returned_2"}
    /\ LET bytes == instance_resident_bytes(probe.resident, probe.vm_page_shift)
       IN  probe' = IF probe.at = "returned_1"
                    THEN [probe EXCEPT !.at = "probed_1", !.probe_1 = bytes]
                    ELSE [probe EXCEPT !.at = "probed_2", !.probe_2 = bytes]
    /\ UNCHANGED <<mvars, cvars>>

\* assert_eq!(probe_1, 0); assert_eq!(probe_2, 0)
AssertProbes ==
    /\ probe.at = "probed_2"
    /\ probe' = [probe EXCEPT !.at = IF probe.probe_1 = 0 /\ probe.probe_2 = 0
                                     THEN "passed" ELSE "panicked"]
    /\ UNCHANGED <<mvars, cvars>>

NextResidency ==
    \/ CallExport
    \/ DirtyPage
    \/ ReturnFromCall
    \/ Probe
    \/ AssertProbes

SpecResidency == InitResidency /\ [][NextResidency]_vars

----------------------------------------------------------------------------
\* What a finished grow call saw and did

GrowDone == ret.op = "grow"

CurrentPages == ret.mem0.wasm_pages

Requested == ret.mem0.wasm_pages + ret.delta

WithinMaximum ==
    ret.mem0.wasm_pages_max.tag = "Some" => Requested <= ret.mem0.wasm_pages_max.v

WithinMapping ==
    PagesToBytes(Requested) + ret.mem0.guard_bytes <= ret.mem0.mapped_bytes

StateKept == ret.mem1.wasm_pages = ret.mem0.wasm_pages /\ ret.vm1 = ret.vm0

\* the page of the address space that holds offset k (in wasm pages) of m
PageAt(m, k) == (m.address \div PageSize) + k

\* the pages of the mapping of m
MappedPages(m) == {p \in Pages : p \in RangePages(m.address, m.mapped_bytes)}

\* C1: with wasm_pages_max = Some(M), grow(delta) returns None whenever
\* current_pages + delta > M, and Some(current_pages + delta) whenever
\* current_pages + delta <= M and the new accessible size plus the guard
\* fits in mapped_bytes.
C1_MaximumEnforcement ==
    (GrowDone /\ ret.mem0.wasm_pages_max.tag = "Some") =>
        /\ Requested > ret.mem0.wasm_pages_max.v => ret.val = None
        /\ (Requested <= ret.mem0.wasm_pages_max.v /\ WithinMapping)
               => ret.val = Some(Requested)

\* C2: whenever the new accessible size plus the guard exceeds mapped_bytes,
\* grow returns None and leaves size() and every page protection as they were.
C2_CapacityDenial ==
    (GrowDone /\ ~WithinMapping) => (ret.val = None /\ StateKept)

\* C3: grow returns Some or None without tripping an assertion; it aborts
\* only if the OS protection change fails, and a grow within wasm_pages_max
\* and within mapped_bytes returns Some.
C3_GrowthNeverFatal ==
    GrowDone =>
        /\ ret.val.tag \in {"Some", "None", "PanicProtect"}
        /\ (Requested <= U32_MAX /\ WithinMaximum /\ WithinMapping)
               => ret.val.tag = "Some"

\* C4: in every state reachable from a successful new_memory by grow calls,
\* the accessible size wasm_pages * 64 KiB is at most mapped_bytes.
C4_AccessibleWithinMapped ==
    (Live /\ lock = NoThread) => PagesToBytes(mem.wasm_pages) <= mem.mapped_bytes

\* C5: when no grow call is in progress every page of the mapping at or
\* beyond the accessible size is no-access and every page below it is
\* read/write; no protection change touches a page outside the mapping.
C5_GuardProtection ==
    /\ [](Live /\ lock = NoThread =>
            \A k \in 0..U32_MAX :
                /\ k < mem.wasm_pages =>
                      PageAt(mem, k) \in Pages /\ vm[PageAt(mem, k)] = "rw"
                /\ (k >= mem.wasm_pages /\ PageAt(mem, k) \in MappedPages(mem)) =>
                      vm[PageAt(mem, k)] = "none")
    /\ [][\A p \in Pages : p \notin MappedPages(mem') => vm'[p] = vm[p]]_vars

\* C6: grow(0) returns Some(current_pages) and leaves size() and the
\* protection of every page unchanged.
C6_ZeroGrowth ==
    (GrowDone /\ ret.delta = 0) => (ret.val = Some(CurrentPages) /\ StateKept)

\* C7: when wasm_pages + delta overflows the page-count type, grow returns
\* None and wasm_pages keeps its value; the page count a grow call is about
\* to store is never a wrapped sum.
C7_OverflowSafety ==
    /\ (GrowDone /\ Requested > U32_MAX) => (ret.val = None /\ StateKept)
    /\ \A t \in Threads :
           pc[t] # "idle" =>
               frame[t].new_page_num = frame[t].mem0.wasm_pages + frame[t].delta
    /\ mem.wasm_pages <= U32_MAX

\* grow(u32::MAX) on a memory with at least one page was denied
C7_Witness ==
    GrowDone /\ CurrentPages >= 1 /\ ret.delta = U32_MAX /\ ret.val = None

\* C8: over any sequence of grow calls the value of size() never decreases,
\* and a successful grow(delta) makes size() the previous size() + delta.
C8_MonotonicGrowth ==
    /\ [](GrowDone /\ ret.val.tag = "Some" =>
             /\ ret.mem1.wasm_pages = ret.mem0.wasm_pages + ret.delta
             /\ ret.val.v = ret.mem1.wasm_pages)
    /\ [][new_memory_result = "Ok" => size' >= size]_vars

\* a grow by at least one page succeeded
C8_Witness ==
    GrowDone /\ ret.val.tag = "Some" /\ ret.delta >= 1 /\ size = CurrentPages + ret.delta

\* C9: once grow(d) has returned None, every later grow(d') with d' >= d
\* returns None as well.
C9_DenialStable ==
    (GrowDone /\ ret.delta >= ret.denied0) => ret.val = None

\* a grow was denied after the memory had grown and a smaller delta had been
\* denied before
C9_Witness ==
    /\ GrowDone /\ ret.val = None
    /\ ret.denied0 < ret.delta
    /\ CurrentPages > new_memory_args.min

\* C10: grow leaves address, mapped_bytes, guard_bytes and wasm_pages_max
\* unchanged, and as_ptr() is the same address in every state of the memory.
C10_BaseAddressStable ==
    /\ [](GrowDone =>
             /\ ret.mem1.address = ret.mem0.address
             /\ ret.mem1.mapped_bytes = ret.mem0.mapped_bytes
             /\ ret.mem1.guard_bytes = ret.mem0.guard_bytes
             /\ ret.mem1.wasm_pages_max = ret.mem0.wasm_pages_max)
    /\ [][new_memory_result = "Ok" =>
             /\ as_ptr' = as_ptr
             /\ maximum' = maximum
             /\ mem'.mapped_bytes = mem.mapped_bytes
             /\ mem'.guard_bytes = mem.guard_bytes]_vars

\* as_ptr() was called after the memory had grown
C10_Witness ==
    /\ ret.op = "as_ptr" /\ ret.val = Some(mem.address)
    /\ size > new_memory_args.min

\* the accessible size new_memory was asked for
RequestedAccessible == PagesToBytes(new_memory_args.min)

\* C11: a successful new_memory(ty, reserved, guard) yields a memory with
\* size() = ty minimum, maximum() = ty maximum, guard_bytes = guard and
\* mapped_bytes = guard + reserved (guard + the minimum size when reserved is
\* absent), and [accessible_bytes, mapped_bytes) is no-access right after it.
C11_NewMemory ==
    [][(new_memory_result = "NotCalled" /\ new_memory_result' = "Ok") =>
          /\ size' = new_memory_args'.min
          /\ maximum' = new_memory_args'.max
          /\ mem'.guard_bytes = new_memory_args'.guard
          /\ mem'.mapped_bytes = new_memory_args'.guard +
                (IF new_memory_args'.reserved.tag = "Some"
                 THEN new_memory_args'.reserved.v
                 ELSE PagesToBytes(new_memory_args'.min))
          /\ \A p \in RangePages(mem'.address + PagesToBytes(size'),
                                 mem'.mapped_bytes - PagesToBytes(size')) :
                p \in Pages /\ vm'[p] = "none"]_vars

\* a memory was created with a reserved size larger than its minimum, a guard,
\* and nothing has been called on it yet
C11_Witness ==
    /\ new_memory_result = "Ok" /\ ret = NoRet /\ lock = NoThread
    /\ new_memory_args.reserved.tag = "Some"
    /\ new_memory_args.reserved.v > RequestedAccessible
    /\ new_memory_args.guard > 0
    /\ size = new_memory_args.min /\ size >= 1
    /\ vm[PageAt(mem, size)] = "none"

\* C12: new_memory returns Err when the mapped size overflows or the OS
\* allocation fails and Ok otherwise; no input makes it abort on its own size
\* arithmetic, and no MachMemory exists after an Err.
C12_AllocationFailuresAreValues ==
    new_memory_result # "NotCalled" =>
        /\ new_memory_result # "PanicAssert"
        /\ new_memory_result \in {"ErrOverflow", "ErrAlloc"} => (mem = NoMem /\ ~aborted)

\* C16: inside grow the range is made read/write before wasm_pages is
\* stored, so at every step, the one at which a failed protection change
\* aborts included, every page below wasm_pages * 64 KiB is read/write.
C16_ProtectBeforeCommit ==
    new_memory_result = "Ok" =>
        \A k \in 0..U32_MAX :
            k < mem.wasm_pages =>
                PageAt(mem, k) \in Pages /\ vm[PageAt(mem, k)] = "rw"

\* the checks of lines 129-136 as thread t's call passed them
ChecksPassed(t) ==
    LET f == frame[t]
    IN  /\ f.mem0.wasm_pages + f.delta <= U32_MAX
        /\ f.new_page_num = f.mem0.wasm_pages + f.delta
        /\ f.mem0.wasm_pages_max.tag = "Some" => f.new_page_num <= f.mem0.wasm_pages_max.v
        /\ f.new_bytes + f.mem0.guard_bytes <= U64_MAX
        /\ f.new_bytes + f.mem0.guard_bytes > f.mem0.mapped_bytes

\* C17: the overflow check, the wasm_pages_max check and the capacity check
\* run before any protection change and any write to wasm_pages, so a grow
\* that returns None has changed neither.
C17_ChecksPrecedeEffects ==
    /\ []((GrowDone /\ ret.val = None) => (ret.mem1 = ret.mem0 /\ ret.vm1 = ret.vm0))
    /\ [][(new_memory_result = "Ok" /\ (mem' # mem \/ vm' # vm)) =>
             \E t \in Threads : pc[t] # "idle" /\ lock = t /\ ChecksPassed(t)]_vars

\* a grow within the page-count type was denied by wasm_pages_max
C17_Witness ==
    /\ GrowDone /\ ret.val = None
    /\ Requested <= U32_MAX /\ ~WithinMaximum
    /\ mem = ret.mem0 /\ vm = ret.vm0

\* C18: grow calls of several threads are serialized by the mutex: no two
\* are inside grow together, size() is the initial size plus the deltas of
\* the calls that returned Some, the maximum is never exceeded, and size()
\* returns a page count from before or after a growth, never from inside it.
C18_Serialized ==
    /\ [](new_memory_result = "Ok" =>
             /\ \A t1, t2 \in Threads :
                    (pc[t1] # "idle" /\ pc[t2] # "idle") => t1 = t2
             /\ (lock = NoThread /\ ~aborted) => size = new_memory_args.min + grown
             /\ mem.wasm_pages_max.tag = "Some" => size <= mem.wasm_pages_max.v)
    /\ [][(ret' # ret /\ ret'.op = "size") =>
             /\ \A t \in Threads : pc[t] = "idle"
             /\ ret'.val = Some(new_memory_args.min + grown)]_vars

\* size() was read after grow calls had added two pages or more
C18_Witness ==
    /\ ret.op = "size" /\ ret.val = Some(size)
    /\ grown >= 2 /\ size = new_memory_args.min + grown

\* C19: the lock is released on every return path of grow and of size, so
\* after calls that returned a further size() or grow() can take the lock.
C19_LockReleased ==
    /\ lock # NoThread => pc[lock] # "idle"
    /\ (Live /\ \A t \in Threads : pc[t] = "idle") =>
           /\ lock = NoThread
           /\ \A t \in Threads : ENABLED Size(t)
           /\ \A t \in Threads, delta \in Deltas : ENABLED GrowLock(t, delta)

\* a grow has returned None, a later grow has returned Some, and the lock is free
C19_Witness ==
    /\ Live /\ lock = NoThread
    /\ GrowDone /\ ret.val.tag = "Some" /\ ret.denied0 < NoDenial

\* C13: starting from an empty map with counter 0, after any sequence of
\* insert, remove, take, mutate, try_mutate, mutate_exists,
\* try_mutate_exists, append, swap and remove_all, count() is the number
\* of keys in the map; insert and append on a key that is present, and remove
\* and take on a key that is absent, leave count() unchanged.
C13_CounterTracksMap ==
    /\ count = Cardinality(KeysIn(map))
    /\ (called.op \in {"insert", "append"} /\ called.key \in KeysIn(called.map0))
           => count = called.counter0
    /\ (called.op \in {"remove", "take"} /\ called.key \notin KeysIn(called.map0))
           => count = called.counter0

\* a mutate call has removed a key while another key stayed in the map
C13_Witness ==
    /\ called.op \in {"mutate", "mutate_exists"}
    /\ called.key \in KeysIn(called.map0) /\ called.key \notin KeysIn(map)
    /\ called.counter0 = 2 /\ count = 1

\* C14: initialize_counter sets the counter to the number of items in the
\* map and returns it, whatever the counter held before, and leaves the map
\* unchanged.
C14_InitializeCounter ==
    called.op = "initialize_counter" =>
        /\ count = Cardinality(KeysIn(map))
        /\ called.result = Cardinality(KeysIn(map))
        /\ map = called.map0

\* initialize_counter has corrected a counter that was wrong
C14_Witness ==
    /\ called.op = "initialize_counter"
    /\ called.counter0 # Cardinality(KeysIn(called.map0))
    /\ count = Cardinality(KeysIn(map))

\* C20: after translate_values(f) in which f returns None for some elements,
\* count() is the number of items remaining in the map.
C20_TranslateValuesCounts ==
    called.op = "translate_values" => count = Cardinality(KeysIn(map))

C21_TryMutateOnlyOnOk ==
    called.op \in {"try_mutate", "try_mutate_exists"} =>
        /\ ~called.ok => map[called.key] = called.map0[called.key] /\ count = called.counter0
        /\ (called.ok /\ called.key \notin KeysIn(called.map0) /\ called.key \in KeysIn(map))
               => count = called.counter0 + 1
        /\ (called.ok /\ called.key \in KeysIn(called.map0) /\ called.key \notin KeysIn(map))
               => count = called.counter0 - 1
====
